---------------------------- MODULE Spec2Model ----------------------------
(***************************************************************************)
(* A model of the text-processing and retrieval code of IR-DA:             *)
(*   - text_processing/freq_models.py   Pair, TwoGram, Frequency           *)
(*   - text_processing/freq_counter.py  compute_word_freq,                 *)
(*                                      compute_twogram_freq               *)
(*   - text_processing/freq_utils.py    tokenize_file, print_frequencies   *)
(*   - info_retrieval/retrieval.py      LegoCorpus                         *)
(*                                                                         *)
(* Python values are records tagged with their runtime type.  A str is a   *)
(* sequence of character codes, so that str comparison is the              *)
(* lexicographic one Python computes.  A dict is the sequence of its       *)
(* (key, value) items in insertion order.  A call's outcome is a record    *)
(* that is either a returned value or a raised exception.                  *)
(***************************************************************************)
EXTENDS Integers, Sequences, FiniteSets

VARIABLES
    tokens,     \* freq_counter: the `tokens` argument of the engine
    freqOp,     \* freq_counter: which entry point ran last
    freqRet,    \* freq_counter: its outcome
    grams,      \* freq_models: the TwoGram objects alive
    gramErr,    \* freq_models: whether the last TwoGram operation raised
    gramOp,     \* freq_models: the last TwoGram operation and its arguments
    fa, fb, fc, \* freq_models: operands of the Frequency comparisons
    cmpRet,     \* freq_models: outcomes of _compare_frequency on them
    docs,       \* retrieval: Corpus.docs
    cossims,    \* retrieval: cossim of each document's vector with the query
    retrOp,     \* retrieval: which LegoCorpus method ran last, its arguments
    retrRet,    \* retrieval: its outcome
    rendered,   \* freq_models: the outcome of the last Pair.__str__
    fileText,   \* freq_utils: the characters the file has left to read
    tokRet,     \* freq_utils: the outcome of tokenize_file
    freqs,      \* freq_utils: the `freqs` list given to print_frequencies
    sink        \* freq_utils: the text written to `out`

vars == <<tokens, freqOp, freqRet, grams, gramErr, gramOp, fa, fb, fc,
          cmpRet, docs, cossims, retrOp, retrRet, rendered, fileText, tokRet,
          freqs, sink>>

freqVars == <<tokens, freqOp, freqRet>>
gramVars == <<grams, gramErr, gramOp, rendered>>
orderVars == <<fa, fb, fc, cmpRet>>
retrVars == <<docs, cossims, retrOp, retrRet>>
utilVars == <<fileText, tokRet, freqs, sink>>

(***************************************************************************)
(* Bounds of the model.                                                    *)
(***************************************************************************)
MaxTokens == 5      \* longest token sequence given to the engine
MaxGrams == 2       \* most TwoGram objects alive at once
MaxFreq == 2        \* largest count of a Frequency operand
MaxDocs == 2        \* most documents of a corpus
MaxScore == 2       \* relevance scores range over 0..MaxScore
MaxCount == 2       \* most occurrences of one term in one document

(***************************************************************************)
(* Python values.                                                          *)
(***************************************************************************)
PyNone == [type |-> "NoneType", val |-> <<>>]
PyStr(s) == [type |-> "str", val |-> s]
PyInt(n) == [type |-> "int", val |-> <<n>>]
PyList(s) == [type |-> "list", val |-> s]
PyFloat(x) == [type |-> "float", val |-> <<x>>]

\* The words used as tokens: "a", "aa", "ab", "b" as character codes.
Words == {<<1>>, <<1, 1>>, <<1, 2>>, <<2>>}
StrTokens == {PyStr(w) : w \in Words}

\* type(x)
TypeOf(x) == x.type

Min(a, b) == IF a <= b THEN a ELSE b

\* The elements of a list, and the number of times x is among them.
Range(s) == {s[i] : i \in DOMAIN s}

Occurrences(s, x) == Cardinality({i \in DOMAIN s : s[i] = x})

\* str.__lt__: lexicographic order on the character codes.
RECURSIVE StrLt(_, _)
StrLt(s, t) ==
    IF t = <<>> THEN FALSE
    ELSE IF s = <<>> THEN TRUE
    ELSE IF Head(s) # Head(t) THEN Head(s) < Head(t)
    ELSE StrLt(Tail(s), Tail(t))

\* x == y for the built-in values: values of different types are unequal.
PyEq(x, y) == TypeOf(x) = TypeOf(y) /\ x = y

\* x < y for two built-in values of the same type (str or int).
PyLt(x, y) ==
    CASE TypeOf(x) = "str" /\ TypeOf(y) = "str" -> StrLt(x.val, y.val)
      [] TypeOf(x) = "int" /\ TypeOf(y) = "int" -> x.val[1] < y.val[1]

\* A call's outcome.
Return(v) == [kind |-> "return", value |-> v, exc |-> ""]
Raise(e) == [kind |-> "raise", value |-> <<>>, exc |-> e]
NoCall == [kind |-> "none", value |-> <<>>, exc |-> ""]

(***************************************************************************)
(* freq_models.py: Pair and TwoGram.                                       *)
(***************************************************************************)
\* The object state Pair.__init__ leaves: the two slots.
NewPair(o1, o2) == [type |-> "TwoGram", object1 |-> o1, object2 |-> o2]

\* TwoGram.__init__: the guard under which the slots are stored.
TwoGramInitOk(token1, token2) ==
    token1 = PyNone \/ token2 = PyNone \/ TypeOf(token1) = TypeOf(token2)

\* An object1 setter that assigns whatever it is given.
SetObject1Unchecked(self, o1) == TRUE

\* TwoGram.object1 setter: the guard under which _object1 is assigned.
SetObject1Ok(self, o1) == o1 = PyNone \/ TypeOf(self.object2) = TypeOf(o1)

\* TwoGram.object2 setter: the guard under which _object2 is assigned.
SetObject2Ok(self, o2) == o2 = PyNone \/ TypeOf(self.object1) = TypeOf(o2)

\* TwoGram.__eq__
TwoGramEq(self, other) ==
    IF other # PyNone /\ TypeOf(other) = "TwoGram"
    THEN PyEq(self.object1, other.object1) /\ PyEq(self.object2, other.object2)
    ELSE FALSE

\* _compare_tokens
CompareTokens(t1, t2) ==
    IF t1 = PyNone /\ t2 = PyNone THEN 0
    ELSE IF t1 = PyNone THEN -1
    ELSE IF t2 = PyNone THEN 1
    ELSE IF PyEq(t1, t2) THEN 0 ELSE IF PyLt(t1, t2) THEN -1 ELSE 1

\* TwoGram._compare_token_pairs
CompareTokenPairs(self, other) ==
    IF other = PyNone \/ TypeOf(other) # "TwoGram" THEN 1
    ELSE LET first_tokens == CompareTokens(self.object1, other.object1)
         IN  IF first_tokens # 0 THEN first_tokens
             ELSE CompareTokens(self.object2, other.object2)

\* TwoGram.__lt__
TwoGramLt(self, other) == CompareTokenPairs(self, other) = -1

\* TwoGram.__gt__
TwoGramGt(self, other) == CompareTokenPairs(self, other) = 1

(***************************************************************************)
(* freq_models.py: Frequency.                                              *)
(***************************************************************************)
\* The object state Frequency.__init__ leaves.
NewFrequency(token, freq) == [type |-> "Frequency", token |-> token, freq |-> freq]

\* Frequency.__init__: the conditions under which it does not raise.
FrequencyInitOk(token, freq) == TypeOf(token) \in {"str", "TwoGram"} /\ freq >= 0

\* self._token == other._token: TwoGram.__eq__ when either side is a
\* TwoGram (str.__eq__ defers to the reflected call), else str equality.
TokenEq(x, y) ==
    IF TypeOf(x) = "TwoGram" THEN TwoGramEq(x, y)
    ELSE IF TypeOf(y) = "TwoGram" THEN TwoGramEq(y, x)
    ELSE PyEq(x, y)

\* self._token < other._token: TwoGram.__lt__, or, for a str against a
\* TwoGram, the reflected TwoGram.__gt__, else str comparison.
TokenLt(x, y) ==
    IF TypeOf(x) = "TwoGram" THEN TwoGramLt(x, y)
    ELSE IF TypeOf(y) = "TwoGram" THEN TwoGramGt(y, x)
    ELSE PyLt(x, y)

\* A comparator that ranks the lower count first.
CompareFrequencyAscending(self, other) ==
    IF other = PyNone \/ TypeOf(other) # "Frequency" THEN 1
    ELSE IF self.freq < other.freq THEN -1
    ELSE IF self.freq = other.freq
         THEN IF TokenEq(self.token, other.token) THEN 0
              ELSE IF TokenLt(self.token, other.token) THEN -1
              ELSE 1
    ELSE 1

\* Frequency._compare_frequency
CompareFrequency(self, other) ==
    IF other = PyNone \/ TypeOf(other) # "Frequency" THEN 1
    ELSE IF self.freq > other.freq THEN -1
    ELSE IF self.freq = other.freq
         THEN IF TokenEq(self.token, other.token) THEN 0
              ELSE IF TokenLt(self.token, other.token) THEN -1
              ELSE 1
    ELSE 1

\* Frequency.__eq__, __lt__, __gt__
FrequencyEq(self, other) == CompareFrequency(self, other) = 0
FrequencyLt(self, other) == CompareFrequency(self, other) = -1
FrequencyGt(self, other) == CompareFrequency(self, other) = 1

(***************************************************************************)
(* Built-ins the engine uses: dict.get, dict item assignment, list.sort.   *)
(***************************************************************************)
\* d.get(key, default): the value of the item whose key equals `key`.
RECURSIVE DictGet(_, _, _)
DictGet(d, key, default) ==
    IF d = <<>> THEN default
    ELSE IF TokenEq(Head(d)[1], key) THEN Head(d)[2]
    ELSE DictGet(Tail(d), key, default)

\* d[key] = value: overwrite in place, or append a new item.
RECURSIVE DictSet(_, _, _)
DictSet(d, key, value) ==
    IF d = <<>> THEN <<<<key, value>>>>
    ELSE IF TokenEq(Head(d)[1], key) THEN <<<<key, value>>>> \o Tail(d)
    ELSE <<Head(d)>> \o DictSet(Tail(d), key, value)

\* One step of the insertion sort list.sort() runs on a short list: x goes
\* before the first element it is less than (only __lt__ is consulted).
RECURSIVE InsertSorted(_, _)
InsertSorted(x, s) ==
    IF s = <<>> THEN <<x>>
    ELSE IF FrequencyLt(x, Head(s)) THEN <<x>> \o s
    ELSE <<Head(s)>> \o InsertSorted(x, Tail(s))

RECURSIVE SortInto(_, _)
SortInto(l, acc) ==
    IF l = <<>> THEN acc ELSE SortInto(Tail(l), InsertSorted(Head(l), acc))

\* A sort that leaves the list as it is.
ListSortSkipped(l) == l

\* freq_list.sort()
ListSort(l) == SortInto(l, <<>>)

\* `not x` is false exactly for None and for the empty list.
Truthy(x) == x # PyNone /\ ~(TypeOf(x) = "list" /\ x.val = <<>>)

(***************************************************************************)
(* freq_counter.py: the frequency engine.                                  *)
(***************************************************************************)
\* A counting step that stores 1 whatever the count was.
CountTokenReset(freq_dict, token) == DictSet(freq_dict, token, 1)

\* freq_dict[token] = freq_dict.get(token, 0) + 1
CountToken(freq_dict, token) ==
    DictSet(freq_dict, token, DictGet(freq_dict, token, 0) + 1)

\* for token in tokens: count it
RECURSIVE CountTokens(_, _)
CountTokens(toks, freq_dict) ==
    IF toks = <<>> THEN freq_dict
    ELSE CountTokens(Tail(toks), CountToken(freq_dict, Head(toks)))

\* for token in freq_dict: freq_list.append(Frequency(token, freq_dict.get(token)))
FreqList(freq_dict) ==
    [i \in 1..Len(freq_dict) |->
        NewFrequency(freq_dict[i][1], DictGet(freq_dict, freq_dict[i][1], PyNone))]

\* The body of compute_word_freq after its guard; iterating None raises.
WordFreqBody(toks) ==
    IF TypeOf(toks) # "list" THEN Raise("TypeError")
    ELSE Return(ListSort(FreqList(CountTokens(toks.val, <<>>))))

\* compute_word_freq without its guard.
ComputeWordFreqUnguarded(toks) == WordFreqBody(toks)

\* compute_word_freq
ComputeWordFreq(toks) ==
    IF ~Truthy(toks) \/ toks = PyNone THEN Return(<<>>) ELSE WordFreqBody(toks)

\* A range that stops one index short of range(len(tokens) - 1).
TwoGramRangeShort(toks) == 1..(Len(toks) - 2)

\* range(len(tokens) - 1), as the 1-based indices of the left tokens.
TwoGramRange(toks) == 1..(Len(toks) - 1)

\* for n in range(len(tokens) - 1): count TwoGram(tokens[n], tokens[n+1])
RECURSIVE CountTwoGrams(_, _, _)
CountTwoGrams(toks, n, tgram_dict) ==
    IF n \notin TwoGramRange(toks) THEN tgram_dict
    ELSE CountTwoGrams(toks, n + 1,
            CountToken(tgram_dict, NewPair(toks[n], toks[n + 1])))

\* The body of compute_twogram_freq after its guard: len(None) raises, and
\* so does a TwoGram of two tokens of different types.
TwoGramFreqBody(toks) ==
    IF TypeOf(toks) # "list" THEN Raise("TypeError")
    ELSE IF \E n \in TwoGramRange(toks.val) :
                ~TwoGramInitOk(toks.val[n], toks.val[n + 1])
         THEN Raise("ValueError")
    ELSE Return(ListSort(FreqList(CountTwoGrams(toks.val, 1, <<>>))))

\* compute_twogram_freq
ComputeTwogramFreq(toks) ==
    IF toks = PyList(<<>>) \/ toks = PyNone THEN Return(<<>>)
    ELSE TwoGramFreqBody(toks)

(***************************************************************************)
(* The engine's specification: an input, and calls of either entry point.  *)
(***************************************************************************)
SeqsUpTo(S, n) == UNION {[1..k -> S] : k \in 0..n}

TokenInputs == {PyNone} \cup {PyList(s) : s \in SeqsUpTo(StrTokens, MaxTokens)}

IdleFreq == tokens = PyNone /\ freqOp = "none" /\ freqRet = NoCall
IdleGrams ==
    grams = <<>> /\ gramErr = FALSE /\ gramOp = <<"none">> /\ rendered = NoCall
IdleOrder == fa = PyNone /\ fb = PyNone /\ fc = PyNone /\ cmpRet = NoCall
IdleRetr == docs = <<>> /\ cossims = <<>> /\ retrOp = <<"none">> /\ retrRet = NoCall
IdleUtil == fileText = <<>> /\ tokRet = NoCall /\ freqs = <<>> /\ sink = <<>>

InitFreq ==
    /\ tokens \in TokenInputs
    /\ freqOp = "none"
    /\ freqRet = NoCall
    /\ IdleGrams /\ IdleOrder /\ IdleRetr /\ IdleUtil

CallComputeWordFreq ==
    /\ freqOp' = "word"
    /\ freqRet' = ComputeWordFreq(tokens)
    /\ UNCHANGED <<tokens, gramVars, orderVars, retrVars, utilVars>>

CallComputeTwogramFreq ==
    /\ freqOp' = "twogram"
    /\ freqRet' = ComputeTwogramFreq(tokens)
    /\ UNCHANGED <<tokens, gramVars, orderVars, retrVars, utilVars>>

NextFreq == CallComputeWordFreq \/ CallComputeTwogramFreq

SpecFreq == InitFreq /\ [][NextFreq]_vars

(***************************************************************************)
(* Properties of the engine.                                               *)
(***************************************************************************)
RECURSIVE SumFreq(_)
SumFreq(out) == IF out = <<>> THEN 0 ELSE Head(out).freq + SumFreq(Tail(out))

\* The adjacent pairs of a token sequence, one per left index.
AdjacentPairs(s) == [i \in 1..(Len(s) - 1) |-> NewPair(s[i], s[i + 1])]

\* `out` holds one Frequency per distinct element of `items`, counted right.
CountsExactly(out, items) ==
    /\ \A x \in Range(items) :
          Cardinality({i \in DOMAIN out : out[i].token = x}) = 1
    /\ \A i \in DOMAIN out :
          /\ out[i].type = "Frequency"
          /\ out[i].freq >= 1
          /\ out[i].freq = Occurrences(items, out[i].token)
    /\ SumFreq(out) = Len(items)

WordCallOnTokens ==
    freqOp = "word" /\ TypeOf(tokens) = "list" /\ Len(tokens.val) >= 1

TwogramCallOnTokens ==
    freqOp = "twogram" /\ TypeOf(tokens) = "list" /\ Len(tokens.val) >= 2

\* C5: for every non-empty token sequence compute_word_freq returns exactly
\* one Frequency per distinct token, its count the number of occurrences of
\* that token, so that the counts sum to len(tokens).
C5_WordCounts ==
    WordCallOnTokens =>
        /\ freqRet.kind = "return"
        /\ CountsExactly(freqRet.value, tokens.val)

\* C5 happens: a word count of several distinct tokens, one of them repeated.
C5_Witness ==
    /\ WordCallOnTokens
    /\ freqRet.kind = "return"
    /\ Len(freqRet.value) >= 2
    /\ \E i \in DOMAIN freqRet.value : freqRet.value[i].freq >= 2

\* C6: for every token sequence of length n >= 2 compute_twogram_freq
\* returns exactly one Frequency per distinct adjacent pair, its count the
\* number of indices at which the pair occurs, so that the counts sum to
\* n - 1.
C6_TwogramCounts ==
    TwogramCallOnTokens =>
        /\ freqRet.kind = "return"
        /\ CountsExactly(freqRet.value, AdjacentPairs(tokens.val))
        /\ SumFreq(freqRet.value) = Len(tokens.val) - 1

\* C6 happens: a two-gram count of several distinct pairs, one repeated.
C6_Witness ==
    /\ TwogramCallOnTokens
    /\ freqRet.kind = "return"
    /\ Len(freqRet.value) >= 2
    /\ \E i \in DOMAIN freqRet.value : freqRet.value[i].freq >= 2

\* The order of subjects the claims speak of: lexicographic on words, and
\* on two-grams by the first slot, then by the second, an absent slot
\* before any word.
SlotBefore(x, y) ==
    IF x = PyNone \/ y = PyNone THEN x = PyNone /\ y # PyNone
    ELSE StrLt(x.val, y.val)

SubjectBefore(x, y) ==
    IF TypeOf(x) = "str" THEN StrLt(x.val, y.val)
    ELSE \/ SlotBefore(x.object1, y.object1)
         \/ x.object1 = y.object1 /\ SlotBefore(x.object2, y.object2)

RankedBefore(a, b) ==
    a.freq > b.freq \/ (a.freq = b.freq /\ SubjectBefore(a.token, b.token))

\* C7: the output of compute_word_freq and of compute_twogram_freq is
\* ordered by the Frequency order (every entry has a higher count than the
\* next, or the same count and a lower subject), and sorting it again
\* returns the same sequence.
C7_OutputOrdered ==
    (freqOp \in {"word", "twogram"} /\ freqRet.kind = "return") =>
        /\ \A i \in 1..(Len(freqRet.value) - 1) :
              RankedBefore(freqRet.value[i], freqRet.value[i + 1])
        /\ ListSort(freqRet.value) = freqRet.value

\* C7 happens: a two-gram output whose order needs both the count and the
\* tie-break, from an input that does not produce the pairs in that order.
C7_Witness ==
    /\ freqOp = "twogram"
    /\ freqRet.kind = "return"
    /\ \E i \in 1..(Len(freqRet.value) - 1) :
          freqRet.value[i].freq > freqRet.value[i + 1].freq
    /\ \E i \in 1..(Len(freqRet.value) - 1) :
          freqRet.value[i].freq = freqRet.value[i + 1].freq
    /\ freqRet.value # FreqList(CountTwoGrams(tokens.val, 1, <<>>))

\* C8: both entry points return the empty list, without raising, when the
\* input is empty or None; compute_twogram_freq also returns the empty list
\* for exactly one token.
C8_EmptyInput ==
    /\ (freqOp \in {"word", "twogram"}
          /\ (tokens = PyNone \/ tokens = PyList(<<>>)))
       => freqRet = Return(<<>>)
    /\ (freqOp = "twogram" /\ TypeOf(tokens) = "list" /\ Len(tokens.val) = 1)
       => freqRet = Return(<<>>)

\* C8 happens: compute_word_freq was called with None.
C8_Witness == freqOp = "word" /\ tokens = PyNone /\ freqRet = Return(<<>>)

(***************************************************************************)
(* freq_models.py: TwoGram objects under construction and reassignment.    *)
(***************************************************************************)
\* The values given to the slots: None, "a", "b" and the int 1.
SlotValues == {PyNone, PyStr(<<1>>), PyStr(<<2>>), PyInt(1)}

InitGrams ==
    /\ grams = <<>>
    /\ gramErr = FALSE
    /\ gramOp = <<"none">>
    /\ rendered = NoCall
    /\ IdleFreq /\ IdleOrder /\ IdleRetr /\ IdleUtil

\* TwoGram(token1, token2)
ConstructTwoGram(token1, token2) ==
    /\ Len(grams) < MaxGrams
    /\ gramOp' = <<"init", token1, token2>>
    /\ IF TwoGramInitOk(token1, token2)
       THEN grams' = Append(grams, NewPair(token1, token2)) /\ gramErr' = FALSE
       ELSE grams' = grams /\ gramErr' = TRUE
    /\ UNCHANGED <<rendered, freqVars, orderVars, retrVars, utilVars>>

\* grams[i].object1 = o1
AssignObject1(i, o1) ==
    /\ gramOp' = <<"object1", i, o1>>
    /\ IF SetObject1Ok(grams[i], o1)
       THEN grams' = [grams EXCEPT ![i].object1 = o1] /\ gramErr' = FALSE
       ELSE grams' = grams /\ gramErr' = TRUE
    /\ UNCHANGED <<rendered, freqVars, orderVars, retrVars, utilVars>>

\* grams[i].object2 = o2
AssignObject2(i, o2) ==
    /\ gramOp' = <<"object2", i, o2>>
    /\ IF SetObject2Ok(grams[i], o2)
       THEN grams' = [grams EXCEPT ![i].object2 = o2] /\ gramErr' = FALSE
       ELSE grams' = grams /\ gramErr' = TRUE
    /\ UNCHANGED <<rendered, freqVars, orderVars, retrVars, utilVars>>

NextGrams ==
    \/ \E t1 \in SlotValues, t2 \in SlotValues : ConstructTwoGram(t1, t2)
    \/ \E i \in DOMAIN grams, o1 \in SlotValues : AssignObject1(i, o1)
    \/ \E i \in DOMAIN grams, o2 \in SlotValues : AssignObject2(i, o2)

SpecGrams == InitGrams /\ [][NextGrams]_vars

TypeSymmetric(g) ==
    g.object1 = PyNone \/ g.object2 = PyNone
        \/ TypeOf(g.object1) = TypeOf(g.object2)

\* C9: after any sequence of TwoGram constructions and slot reassignments
\* every TwoGram has both slots of the same type or a slot absent, and an
\* operation that raises leaves the slots of every TwoGram as they were.
C9_TypeSymmetry ==
    /\ [](\A i \in DOMAIN grams : TypeSymmetric(grams[i]))
    /\ [][gramErr' => grams' = grams]_vars

\* C9 happens: an operation was refused on a TwoGram holding two words.
C9_Witness ==
    /\ gramErr
    /\ \E i \in DOMAIN grams :
          TypeOf(grams[i].object1) = "str" /\ TypeOf(grams[i].object2) = "str"

(***************************************************************************)
(* freq_models.py: the Frequency comparisons on given operands.            *)
(***************************************************************************)
\* Subjects of the operands: words, and TwoGrams of None, "a" and "ab".
GramSlots == {PyNone, PyStr(<<1>>), PyStr(<<1, 2>>)}
GramSubjects == {NewPair(x, y) : x \in GramSlots, y \in GramSlots}

Subjects(kind) == IF kind = "str" THEN StrTokens ELSE GramSubjects

\* The Frequency objects Frequency.__init__ builds on subjects of one kind.
Frequencies(kind) ==
    {NewFrequency(s, n) : s \in Subjects(kind), n \in 0..MaxFreq}

\* Values that are no Frequency: None, a str, an int, a TwoGram.
NonFrequencies == {PyNone, PyStr(<<1>>), PyInt(1), NewPair(PyNone, PyStr(<<1>>))}

InitOrder ==
    /\ \E kind \in {"str", "TwoGram"} :
          /\ fa \in Frequencies(kind)
          /\ fb \in Frequencies(kind) \cup NonFrequencies
          /\ fc \in Frequencies(kind)
    /\ \A f \in {fa, fc} : FrequencyInitOk(f.token, f.freq)
    /\ cmpRet = NoCall
    /\ IdleFreq /\ IdleGrams /\ IdleRetr /\ IdleUtil

\* fa, fb and fc are Frequency objects: fa against fb, fb against fa,
\* fb against fc and fa against fc, each by _compare_frequency.
CompareFrequencies ==
    /\ TypeOf(fb) = "Frequency"
    /\ cmpRet' = Return(<<CompareFrequency(fa, fb), CompareFrequency(fb, fa),
                          CompareFrequency(fb, fc), CompareFrequency(fa, fc)>>)
    /\ UNCHANGED <<fa, fb, fc, freqVars, gramVars, retrVars, utilVars>>

\* fb is no Frequency: fa against fb by _compare_frequency.
CompareWithOther ==
    /\ TypeOf(fb) # "Frequency"
    /\ cmpRet' = Return(<<CompareFrequency(fa, fb)>>)
    /\ UNCHANGED <<fa, fb, fc, freqVars, gramVars, retrVars, utilVars>>

NextOrder == CompareFrequencies \/ CompareWithOther

SpecOrder == InitOrder /\ [][NextOrder]_vars

ExactlyOne(p, q, r) == (p /\ ~q /\ ~r) \/ (~p /\ q /\ ~r) \/ (~p /\ ~q /\ r)

\* C10: the Frequency comparison is a total order.  With -1 read as "less"
\* and 0 as "equal": exactly one of a < b, a == b, b < a holds; a < b and
\* b < c give a < c; a < b exactly when a has the higher count, or the same
\* count and the lower subject; a == b exactly when count and subject are
\* equal; and against None or a value that is no Frequency the Frequency is
\* the greater one (1).
C10_TotalOrder ==
    cmpRet.kind = "return" =>
        LET r == cmpRet.value
        IN  IF TypeOf(fb) = "Frequency"
            THEN /\ ExactlyOne(r[1] = -1, r[1] = 0, r[2] = -1)
                 /\ (r[1] = -1 /\ r[3] = -1) => r[4] = -1
                 /\ r[1] = -1 <=> RankedBefore(fa, fb)
                 /\ r[1] = 0 <=> (fa.freq = fb.freq /\ fa.token = fb.token)
                 /\ r[1] \in {-1, 0, 1}
            ELSE r = <<1>>

\* C10 happens: three TwoGram Frequencies of one count in a chain
\* a < b < c that the tie-break decides, an absent slot lowest.
C10_Witness ==
    /\ cmpRet.kind = "return"
    /\ TypeOf(fb) = "Frequency"
    /\ TypeOf(fa.token) = "TwoGram"
    /\ fa.freq = fb.freq /\ fb.freq = fc.freq
    /\ fa.token.object1 = PyNone
    /\ cmpRet.value[1] = -1 /\ cmpRet.value[3] = -1

(***************************************************************************)
(* retrieval.py: LegoCorpus.  A float is held in fixed point: a logarithm  *)
(* in thousandths, a product of two logarithms in millionths.  A Document  *)
(* object is named by its position in Corpus.docs.                         *)
(***************************************************************************)
\* math.log10 of 1..10, in thousandths.
Log10Milli == <<0, 301, 477, 602, 699, 778, 845, 903, 954, 1000>>

\* LegoCorpus.__init__: one Document per LegoSet, titled by the set's name,
\* its words the one-element list holding the description.
LegoDocument(l_set) == [title |-> l_set.set_name, words |-> <<l_set.prod_long_desc>>]

\* Document.tf(term): the number of occurrences of term in doc.words.
DocTf(doc, term) == Occurrences(doc.words, term)

\* [word for doc in self.docs for word in doc.words]
RECURSIVE AllWords(_)
AllWords(ds) == IF ds = <<>> THEN <<>> ELSE Head(ds).words \o AllWords(Tail(ds))

\* Corpus._build_index_dict(words): each distinct word once, in order of
\* first occurrence (the keys of the index dictionary).
RECURSIVE BuildIndexDict(_)
BuildIndexDict(words) ==
    IF words = <<>> THEN <<>>
    ELSE LET rest == BuildIndexDict(SubSeq(words, 1, Len(words) - 1))
             last == words[Len(words)]
         IN  IF last \in Range(rest) THEN rest ELSE Append(rest, last)

\* LegoCorpus._compute_terms
ComputeTerms(ds) == BuildIndexDict(AllWords(ds))

\* LegoCorpus._compute_df
ComputeDf(ds, term) == Cardinality({i \in DOMAIN ds : term \in Range(ds[i].words)})

\* Corpus._dfs: the document frequency of every term of the vocabulary.
ComputeDfs(ds) ==
    LET terms == ComputeTerms(ds)
    IN  [i \in DOMAIN terms |-> <<terms[i], ComputeDf(ds, terms[i])>>]

DictKeys(d) == {d[i][1] : i \in DOMAIN d}

\* d.get(key) on a dict with str keys
Lookup(d, key) == d[CHOOSE i \in DOMAIN d : d[i][1] = key][2]

\* LegoCorpus._compute_tf_idf(term, doc): a call that runs off the end of
\* the function body returns None.  log10(n / (1 + df)) is taken as
\* log10(n) - log10(1 + df).
ComputeTfIdf(ds, term, doc) ==
    LET dfs == ComputeDfs(ds)
    IN  IF term \in DictKeys(dfs)
        THEN LET df == Lookup(dfs, term)
                 tf == Log10Milli[1 + DocTf(doc, term)]
                 idf == Log10Milli[Len(ds)] - Log10Milli[1 + df]
                 tf_idf == tf * idf
             IN  IF term \in Range(ComputeTerms(ds)) /\ Len(ds) > 1
                 THEN Return(PyFloat(tf_idf))
                 ELSE Return(PyNone)
        ELSE Return(PyFloat(0))

\* LegoCorpus.compute_tf_idf_vector(doc): the list handed to Vector.
ComputeTfIdfVector(ds, doc) ==
    LET terms == ComputeTerms(ds)
    IN  Return([i \in DOMAIN terms |-> ComputeTfIdf(ds, terms[i], doc).value])

\* Corpus._tf_idf.items(): one item per title, in corpus order, holding the
\* vector of the last document of that title.
RECURSIVE TfIdfItems(_, _)
TfIdfItems(ds, n) ==
    IF n = 0 THEN <<>>
    ELSE LET rest == TfIdfItems(ds, n - 1)
         IN  IF ds[n].title \in DictKeys(rest)
             THEN [i \in DOMAIN rest |->
                     IF rest[i][1] = ds[n].title THEN <<ds[n].title, n>> ELSE rest[i]]
             ELSE Append(rest, <<ds[n].title, n>>)

\* LegoCorpus.compute_query_relevance: the dict title -> cossim with the query.
ComputeQueryRelevance(ds, sims) ==
    LET items == TfIdfItems(ds, Len(ds))
    IN  [i \in DOMAIN items |-> <<items[i][1], sims[items[i][2]]>>]

\* One step of sorted(..., key=score, reverse=True): a stable sort, an item
\* goes before the first item of a strictly lower score.
RECURSIVE InsertByScore(_, _)
InsertByScore(x, s) ==
    IF s = <<>> THEN <<x>>
    ELSE IF x[2] > Head(s)[2] THEN <<x>> \o s
    ELSE <<Head(s)>> \o InsertByScore(x, Tail(s))

RECURSIVE SortedByScore(_, _)
SortedByScore(items, acc) ==
    IF items = <<>> THEN acc
    ELSE SortedByScore(Tail(items), InsertByScore(Head(items), acc))

\* s[:k] for k >= 0
Prefix(s, k) == SubSeq(s, 1, Min(k, Len(s)))

\* [set for set in self.docs if set.title in titles], as positions in docs
RECURSIVE FilterByTitle(_, _, _)
FilterByTitle(ds, n, titles) ==
    IF n = 0 THEN <<>>
    ELSE IF ds[n].title \in titles
         THEN Append(FilterByTitle(ds, n - 1, titles), n)
    ELSE FilterByTitle(ds, n - 1, titles)

\* LegoCorpus.get_top_k_sets(query_result, k)
GetTopKSets(ds, query_result, k) ==
    LET sorted_result == Prefix(SortedByScore(query_result, <<>>), k)
    IN  Return(FilterByTitle(ds, Len(ds), DictKeys(sorted_result)))

(***************************************************************************)
(* The corpus's specification: a corpus built from LegoSets, the query's   *)
(* similarity to each document, and calls of the LegoCorpus methods.       *)
(***************************************************************************)
Titles == {"A", "B"}
Descs == {"x", "y"}
Terms == Descs \cup {"z"}

LegoSets == [set_name : Titles, prod_long_desc : Descs]

\* Documents given to _compute_tf_idf that are not of the corpus (a query).
QueryDocs == {[title |-> "Query Set", words |-> w] : w \in SeqsUpTo({"x"}, MaxCount)}

InitRetr ==
    /\ \E n \in 1..MaxDocs :
          /\ \E sets \in [1..n -> LegoSets] :
                docs = [i \in 1..n |-> LegoDocument(sets[i])]
          /\ cossims \in [1..n -> 0..MaxScore]
    /\ retrOp = <<"none">>
    /\ retrRet = NoCall
    /\ IdleFreq /\ IdleGrams /\ IdleOrder /\ IdleUtil

CallComputeTfIdf(term, doc) ==
    /\ retrOp' = <<"tf_idf", term, doc>>
    /\ retrRet' = ComputeTfIdf(docs, term, doc)
    /\ UNCHANGED <<docs, cossims, freqVars, gramVars, orderVars, utilVars>>

CallComputeTfIdfVector(doc) ==
    /\ retrOp' = <<"tf_idf_vector", doc>>
    /\ retrRet' = ComputeTfIdfVector(docs, doc)
    /\ UNCHANGED <<docs, cossims, freqVars, gramVars, orderVars, utilVars>>

CallComputeQueryRelevance ==
    /\ retrOp' = <<"query_relevance">>
    /\ retrRet' = Return(ComputeQueryRelevance(docs, cossims))
    /\ UNCHANGED <<docs, cossims, freqVars, gramVars, orderVars, utilVars>>

CallGetTopKSets(k) ==
    /\ retrOp' = <<"top_k", k, ComputeQueryRelevance(docs, cossims)>>
    /\ retrRet' = GetTopKSets(docs, ComputeQueryRelevance(docs, cossims), k)
    /\ UNCHANGED <<docs, cossims, freqVars, gramVars, orderVars, utilVars>>

NextRetr ==
    \/ \E term \in Terms, doc \in Range(docs) \cup QueryDocs :
          CallComputeTfIdf(term, doc)
    \/ \E doc \in Range(docs) \cup QueryDocs : CallComputeTfIdfVector(doc)
    \/ CallComputeQueryRelevance
    \/ \E k \in 0..(MaxDocs + 1) : CallGetTopKSets(k)

SpecRetr == InitRetr /\ [][NextRetr]_vars

(***************************************************************************)
(* Properties of the corpus.                                               *)
(***************************************************************************)
\* C1: in a corpus of exactly one document _compute_tf_idf(term, doc)
\* yields the number 0.0 for every term, in the vocabulary or not, however
\* often the term occurs in the document.
C1_SingleDocZero ==
    (retrOp[1] = "tf_idf" /\ Len(docs) = 1) => retrRet = Return(PyFloat(0))

\* The score get_top_k_sets was given for the document at position n.
ScoreOf(n) == Lookup(retrOp[3], docs[n].title)

\* C2: the list get_top_k_sets returns is sorted by non-increasing score.
C2_TopKSorted ==
    retrOp[1] = "top_k" =>
        \A i \in DOMAIN retrRet.value, j \in DOMAIN retrRet.value :
            i < j => ScoreOf(retrRet.value[i]) >= ScoreOf(retrRet.value[j])

\* C3: get_top_k_sets never returns more than min(k, number of documents)
\* entries, also when two documents share a title, and returns every
\* document when fewer than k exist.
C3_TopKSize ==
    retrOp[1] = "top_k" =>
        /\ Len(retrRet.value) <= Min(retrOp[2], Len(docs))
        /\ Len(docs) < retrOp[2] => retrRet.value = [i \in DOMAIN docs |-> i]

\* C4: get_top_k_sets returns exactly the k documents of the highest
\* scores, the earlier document of the corpus winning a tie at the cut-off.
C4_TopKHighest ==
    retrOp[1] = "top_k" =>
        /\ Len(retrRet.value) = Min(retrOp[2], Len(docs))
        /\ \A i \in Range(retrRet.value) :
             \A j \in DOMAIN docs \ Range(retrRet.value) :
                \/ ScoreOf(i) > ScoreOf(j)
                \/ ScoreOf(i) = ScoreOf(j) /\ i < j

(***************************************************************************)
(* freq_models.py: Pair.__str__, which TwoGram inherits.  The characters   *)
(* outside the words are held by their ASCII codes.                        *)
(***************************************************************************)
\* The text "None".
NoneText == <<78, 111, 110, 101>>

\* str(x) of a slot value: a str is itself, an int below ten its digit.
StrOf(x) ==
    CASE TypeOf(x) = "str" -> x.val
      [] TypeOf(x) = "int" -> <<48 + x.val[1]>>
      [] TypeOf(x) = "NoneType" -> NoneText

\* Pair.__str__, its assignments: a slot that equals None is overwritten
\* with the str "None".
PairStrSlots(self) ==
    [self EXCEPT
        !.object1 = IF PyEq(self.object1, PyNone) THEN PyStr(NoneText) ELSE @,
        !.object2 = IF PyEq(self.object2, PyNone) THEN PyStr(NoneText) ELSE @]

\* Pair.__str__, its result: "<" + str(object1) + ":" + str(object2) + ">"
PairStr(self) ==
    LET after == PairStrSlots(self)
    IN  <<60>> \o StrOf(after.object1) \o <<58>> \o StrOf(after.object2) \o <<62>>

\* str(grams[i])
RenderTwoGram(i) ==
    /\ grams' = [grams EXCEPT ![i] = PairStrSlots(grams[i])]
    /\ rendered' = Return(PyStr(PairStr(grams[i])))
    /\ gramErr' = FALSE
    /\ gramOp' = <<"str", i>>
    /\ UNCHANGED <<freqVars, orderVars, retrVars, utilVars>>

NextRender ==
    \/ NextGrams
    \/ \E i \in DOMAIN grams : RenderTwoGram(i)

SpecRender == InitGrams /\ [][NextRender]_vars

\* C13: rendering a Pair or TwoGram as a string leaves both slots as they
\* were: an absent slot renders as the text None and is still absent
\* afterwards, and the pair still equals (and so hashes like) a pair
\* freshly built from the slots it had.
C13_RenderKeepsSlots ==
    [][gramOp'[1] = "str" =>
          LET i == gramOp'[2]
          IN  /\ rendered'.value.val =
                    <<60>> \o StrOf(grams[i].object1) \o <<58>>
                        \o StrOf(grams[i].object2) \o <<62>>
              /\ grams'[i].object1 = grams[i].object1
              /\ grams'[i].object2 = grams[i].object2
              /\ TwoGramEq(grams'[i], NewPair(grams[i].object1, grams[i].object2))
      ]_vars

\* C14: a slot reassignment is accepted whenever the resulting pair keeps
\* type symmetry, as the constructor accepts it; in particular any value
\* may be assigned to a slot while the other slot is absent.  (A setter
\* leaves the other slot as it was, whether it raises or not.)
C14_SetterAccepts ==
    /\ (gramOp[1] = "object1"
          /\ TwoGramInitOk(gramOp[3], grams[gramOp[2]].object2)) => ~gramErr
    /\ (gramOp[1] = "object2"
          /\ TwoGramInitOk(grams[gramOp[2]].object1, gramOp[3])) => ~gramErr

(***************************************************************************)
(* freq_utils.py: print_frequencies.  The text written to `out` is a       *)
(* sequence of character codes; a call is given a fresh stream.            *)
(***************************************************************************)
\* " total items\n" and " unique items\n\n", the literal text of the two
\* header writes.
TotalLabel == <<32, 116, 111, 116, 97, 108, 32, 105, 116, 101, 109, 115, 10>>
UniqueLabel ==
    <<32, 117, 110, 105, 113, 117, 101, 32, 105, 116, 101, 109, 115, 10, 10>>

\* str(n) of an int n >= 0
RECURSIVE Digits(_)
Digits(n) ==
    IF n < 10 THEN <<48 + n>> ELSE Digits(n \div 10) \o <<48 + (n % 10)>>

\* f"{n:>6}": the digits right-aligned in a field of six, never cut.
FormatCount(n) ==
    LET d == Digits(n)
    IN  IF Len(d) >= 6 THEN d ELSE [i \in 1..(6 - Len(d)) |-> 32] \o d

\* The loop `total_items = total_items + freq.freq` from position i on.
RECURSIVE TotalItemsFrom(_, _, _)
TotalItemsFrom(fs, i, total_items) ==
    IF i > Len(fs) THEN total_items
    ELSE TotalItemsFrom(fs, i + 1, total_items + fs[i].freq)

TotalItems(fs) == TotalItemsFrom(fs, 1, 0)

\* hash(token): a TwoGram hashes as the tuple of its slots (Pair.__hash__),
\* a str as itself.  Equal keys stand for equal hashes.
TokenHash(token) ==
    IF TypeOf(token) = "TwoGram"
    THEN [tuple |-> TRUE, items |-> <<token.object1, token.object2>>]
    ELSE [tuple |-> FALSE, items |-> <<token>>]

\* Frequency.__hash__: hash((token, freq))
HashOf(f) == <<TokenHash(f.token), f.freq>>

\* set.add: the element is kept unless one with its hash equals it.
SetAdd(members, f) ==
    IF \E i \in DOMAIN members :
          HashOf(members[i]) = HashOf(f) /\ FrequencyEq(members[i], f)
    THEN members
    ELSE Append(members, f)

\* set(freqs), as the sequence of the members kept.
RECURSIVE SetOf(_)
SetOf(fs) ==
    IF fs = <<>> THEN <<>> ELSE SetAdd(SetOf(SubSeq(fs, 1, Len(fs) - 1)), fs[Len(fs)])

\* A count of unique items that takes every entry as unique.
UniqueItemsAll(fs) == Len(fs)

\* len(set(freqs))
UniqueItems(fs) == Len(SetOf(fs))

\* freq.token.__str__(): the text of a word or of a TwoGram.
TokenStr(token) ==
    IF TypeOf(token) = "TwoGram" THEN PairStr(token) ELSE StrOf(token)

\* The token after its __str__ ran: Pair.__str__ rewrites absent slots.
TokenAfterStr(token) ==
    IF TypeOf(token) = "TwoGram" THEN PairStrSlots(token) ELSE token

\* The loop of writes f"{freq.freq:>6} {freq.token.__str__()}\n"
RECURSIVE FreqLines(_)
FreqLines(fs) ==
    IF fs = <<>> THEN <<>>
    ELSE FormatCount(Head(fs).freq) \o <<32>> \o TokenStr(Head(fs).token)
             \o <<10>> \o FreqLines(Tail(fs))

\* Everything print_frequencies writes to `out`.
PrintFrequencies(fs) ==
    FormatCount(TotalItems(fs)) \o TotalLabel
        \o FormatCount(UniqueItems(fs)) \o UniqueLabel \o FreqLines(fs)

MaxPrinted == 3     \* longest Frequency list given to print_frequencies

\* The lists printed: Frequencies of "a", "b" and <None:a>, with counts of
\* one digit and of two.
PrintSubjects == {PyStr(<<1>>), PyStr(<<2>>), NewPair(PyNone, PyStr(<<1>>))}
PrintCounts == (1..MaxFreq) \cup {12}
PrintInputs ==
    SeqsUpTo({NewFrequency(s, n) : s \in PrintSubjects, n \in PrintCounts},
             MaxPrinted)

InitPrint ==
    /\ freqs \in PrintInputs
    /\ \A i \in DOMAIN freqs : FrequencyInitOk(freqs[i].token, freqs[i].freq)
    /\ sink = <<>>
    /\ fileText = <<>>
    /\ tokRet = NoCall
    /\ IdleFreq /\ IdleGrams /\ IdleOrder /\ IdleRetr

\* print_frequencies(freqs, out)
CallPrintFrequencies ==
    /\ sink' = PrintFrequencies(freqs)
    /\ freqs' = [i \in DOMAIN freqs |->
                    [freqs[i] EXCEPT !.token = TokenAfterStr(@)]]
    /\ UNCHANGED <<fileText, tokRet, freqVars, gramVars, orderVars, retrVars>>

NextPrint == CallPrintFrequencies

SpecPrint == InitPrint /\ [][NextPrint]_vars

\* The lines of a text: the stretches each newline ends, and what follows
\* the last newline if anything does.
RECURSIVE LinesOf(_)
LinesOf(text) ==
    IF text = <<>> THEN <<>>
    ELSE LET ends == {k \in DOMAIN text : text[k] = 10}
             k == IF ends = {} THEN Len(text) + 1
                  ELSE CHOOSE e \in ends : \A o \in ends : e <= o
         IN  <<SubSeq(text, 1, k - 1)>> \o LinesOf(SubSeq(text, k + 1, Len(text)))

\* The number a sequence of digits denotes.
RECURSIVE ParseNat(_)
ParseNat(d) ==
    IF d = <<>> THEN 0
    ELSE 10 * ParseNat(SubSeq(d, 1, Len(d) - 1)) + (d[Len(d)] - 48)

\* `line` opens with a field of six holding n right-aligned behind blanks,
\* and goes on with `rest`.
NumberedLine(line, n, rest) ==
    /\ Len(line) = 6 + Len(rest)
    /\ SubSeq(line, 7, Len(line)) = rest
    /\ \E k \in 0..5 :
          /\ \A i \in 1..k : line[i] = 32
          /\ \A i \in (k + 1)..6 : line[i] \in 48..57
          /\ k < 5 => line[k + 1] # 48
          /\ ParseNat(SubSeq(line, k + 1, 6)) = n

\* The distinct (subject, count) records of a Frequency list.
DistinctRecords(fs) == {<<fs[i].token, fs[i].freq>> : i \in DOMAIN fs}

\* The text a subject is shown as: a word as itself, a TwoGram as
\* <object1:object2> with an absent slot shown as None.
SubjectText(token) ==
    IF TypeOf(token) = "TwoGram"
    THEN <<60>> \o StrOf(token.object1) \o <<58>> \o StrOf(token.object2) \o <<62>>
    ELSE token.val

\* C11: print_frequencies writes a total line whose number is the sum of
\* all counts, a unique line whose number is the count of distinct
\* (subject, count) records, a blank line, and then exactly one line per
\* Frequency, count then subject, in the order of the input list.
C11_PrintedReport ==
    [][sink' # sink =>
          LET lines == LinesOf(sink')
          IN  /\ Len(lines) = 3 + Len(freqs)
              /\ NumberedLine(lines[1], SumFreq(freqs),
                              SubSeq(TotalLabel, 1, Len(TotalLabel) - 1))
              /\ NumberedLine(lines[2], Cardinality(DistinctRecords(freqs)),
                              SubSeq(UniqueLabel, 1, Len(UniqueLabel) - 2))
              /\ lines[3] = <<>>
              /\ \A i \in DOMAIN freqs :
                    NumberedLine(lines[3 + i], freqs[i].freq,
                                 <<32>> \o SubjectText(freqs[i].token))
      ]_vars

\* C11 happens: a list of three was printed that repeats its first record
\* at the end, holds a TwoGram with an absent slot between them, and sums
\* to a number of two digits.
C11_Witness ==
    /\ Len(freqs) = 3
    /\ Len(LinesOf(sink)) = 6
    /\ freqs[1] = freqs[3]
    /\ TypeOf(freqs[1].token) = "str"
    /\ TypeOf(freqs[2].token) = "TwoGram"
    /\ freqs[1].freq = 12

(***************************************************************************)
(* freq_utils.py: tokenize_file.  The file is the sequence of the code     *)
(* points it has left to read; newlines are already translated to \n.      *)
(***************************************************************************)
\* str.lower() of one character: "B" becomes "b", and U+0130 (capital I
\* with dot above) becomes "i" followed by U+0307 (combining dot above);
\* the other characters used here are their own lowercase.
LowerChar(c) ==
    IF c \in 65..90 THEN <<c + 32>>
    ELSE IF c = 304 THEN <<105, 775>>
    ELSE <<c>>

\* line.lower()
RECURSIVE Lower(_)
Lower(line) ==
    IF line = <<>> THEN <<>> ELSE LowerChar(Head(line)) \o Lower(Tail(line))

\* The class [\w'] on the characters used here: letters, digits, the
\* underscore and the apostrophe match; a blank, a newline and the
\* combining mark U+0307 do not.
WordChar(c) ==
    c \in (48..57) \cup (65..90) \cup (97..122) \cup {39, 95, 304}

\* regex_patt.findall(line) from position i on: `run` is the match under
\* way, `found` the matches ended so far.
RECURSIVE FindAllFrom(_, _, _, _)
FindAllFrom(line, i, run, found) ==
    IF i > Len(line)
    THEN IF run = <<>> THEN found ELSE Append(found, PyStr(run))
    ELSE IF WordChar(line[i])
    THEN FindAllFrom(line, i + 1, Append(run, line[i]), found)
    ELSE FindAllFrom(line, i + 1, <<>>,
                     IF run = <<>> THEN found ELSE Append(found, PyStr(run)))

\* regex_patt.findall(line)
FindAll(line) == FindAllFrom(line, 1, <<>>, <<>>)

\* `for line in file_obj`: the lines of the text, each with the newline
\* that ends it.
RECURSIVE FileLines(_)
FileLines(text) ==
    IF text = <<>> THEN <<>>
    ELSE LET ends == {k \in DOMAIN text : text[k] = 10}
             k == IF ends = {} THEN Len(text)
                  ELSE CHOOSE e \in ends : \A o \in ends : e <= o
         IN  <<SubSeq(text, 1, k)>> \o FileLines(SubSeq(text, k + 1, Len(text)))

\* The loop of tokenize_file over the lines left, extending token_list.
RECURSIVE TokenizeLines(_, _)
TokenizeLines(lines, token_list) ==
    IF lines = <<>> THEN token_list
    ELSE TokenizeLines(Tail(lines), token_list \o FindAll(Lower(Head(lines))))

\* tokenize_file(file_obj)
TokenizeFile(text) == TokenizeLines(FileLines(text), <<>>)

MaxChars == 4       \* most characters of the file

\* The characters of the file: a, B, U+0130, the apostrophe, the blank and
\* the newline.
FileChars == {97, 66, 304, 39, 32, 10}

InitTokenize ==
    /\ fileText \in SeqsUpTo(FileChars, MaxChars)
    /\ tokRet = NoCall
    /\ freqs = <<>>
    /\ sink = <<>>
    /\ IdleFreq /\ IdleGrams /\ IdleOrder /\ IdleRetr

\* tokenize_file(file_obj): the file is read to its end.
CallTokenizeFile ==
    /\ tokRet' = Return(PyList(TokenizeFile(fileText)))
    /\ fileText' = <<>>
    /\ UNCHANGED <<freqs, sink, freqVars, gramVars, orderVars, retrVars>>

NextTokenize == CallTokenizeFile

SpecTokenize == InitTokenize /\ [][NextTokenize]_vars

\* The positions of a text where a maximal run of word characters and
\* apostrophes starts, and the position where the run from i ends.
RunStarts(text) ==
    {i \in DOMAIN text : WordChar(text[i]) /\ (i = 1 \/ ~WordChar(text[i - 1]))}

RunEnd(text, i) ==
    CHOOSE j \in i..Len(text) :
        /\ \A m \in i..j : WordChar(text[m])
        /\ j = Len(text) \/ ~WordChar(text[j + 1])

\* The k-th member of a set of positions, counted from the lowest.
NthOf(positions, k) ==
    CHOOSE i \in positions : Cardinality({j \in positions : j < i}) = k - 1

\* C12: tokenize_file returns, in the order they occur, exactly the maximal
\* runs of word characters and apostrophes of the lines, each lowercased;
\* no token is empty, none holds a delimiter or a newline, and a file with
\* nothing to read gives the empty list.
C12_TokensAreRuns ==
    [][LET out == tokRet'.value.val
           starts == RunStarts(fileText)
       IN  /\ tokRet'.kind = "return"
           /\ Len(out) = Cardinality(starts)
           /\ \A k \in DOMAIN out :
                 LET i == NthOf(starts, k)
                 IN  out[k] = PyStr(Lower(SubSeq(fileText, i, RunEnd(fileText, i))))
           /\ \A k \in DOMAIN out :
                 out[k].val # <<>> /\ \A m \in DOMAIN out[k].val : WordChar(out[k].val[m])
           /\ fileText = <<>> => out = <<>>
      ]_vars

=============================================================================
